---- MODULE Spec2Model ----
(***************************************************************************)
(* moonshine_kind: kind-typed entity handles (Instance<T>), safe casts     *)
(* (CastInto) and the kind-filtered traversal trigger (InstanceTrigger).   *)
(*                                                                         *)
(* Two specifications share the world variables:                           *)
(*   Spec         the handle algebra over a small world                    *)
(*   SpecTrigger  one InstanceTrigger::trigger invocation over a hierarchy *)
(***************************************************************************)
EXTENDS Integers, Sequences, FiniteSets

\* ---------------------------------------------------------------- bounds
\* entities spawned in the handle specification
MaxEntities == 2
\* entities spawned in the trigger specification (root, a, b, c, d)
MaxChain == 5

\* ---------------------------------------------------------------- types
\* #[derive(Component)] struct Apple; struct Orange;
Components == {"Apple", "Orange"}
\* the kinds: every component, Fruit (Or<(With<Apple>, With<Orange>)>) and Any
Kinds == Components \cup {"Fruit", "Any"}
\* Option<T>
None == <<>>
Some(x) == <<x>>
\* Entity::PLACEHOLDER (index u32::MAX): an id no spawned entity has
EntityPLACEHOLDER == 0 - 1
\* the cast rules a program may declare with safe_cast!(T => U), written once
\* at startup: the fruits rules, the rule of tests::kind_cast, or none
RuleTables ==
    { { <<"Apple", "Fruit">>, <<"Orange", "Fruit">> },
      { <<"Apple", "Orange">> },
      {} }

VARIABLES
    \* ---- the world
    nextId,     \* the id the next spawned entity gets
    alive,      \* the live entities
    comps,      \* comps[e]: the components of entity e
    parent,     \* parent[e]: Some(p) when e has ChildOf(p), else None
    \* ---- the handle algebra
    declared,   \* the declared CastInto rules <<T, U>>
    foo,        \* Option<Instance>: a constructed handle
    bar,        \* Option<Instance>: a handle obtained from foo by casts
    ret,        \* the last operation: its name, inputs and result
    \* ---- one InstanceTrigger invocation
    K,                      \* the required component K of the trigger
    original_event_target,  \* InstanceTrigger::original_event_target
    event_target,           \* InstanceTrigger::event_target
    propagate,              \* InstanceTrigger::propagate
    pc,                     \* position inside InstanceTrigger::trigger
    received,               \* the dispatches the observers saw, in order
    in_progress,            \* the trigger_entity_internal calls not yet returned
    event,                  \* the event payload (`event: &mut E`)
    \* ---- accessors, change detection and deferred commands
    acc,        \* Option<accessor>: InstanceRef / InstanceMut / ...
    changed,    \* the <<entity, component>> pairs marked changed
    queue,      \* the deferred command buffer of Commands
    \* ---- the host scheduler
    systems,    \* systems[i]: the query item and component of system i
    running     \* the systems running concurrently

worldVars == <<nextId, alive, comps, parent>>
handleVars == <<declared, foo, bar, ret>>
triggerVars ==
    <<K, original_event_target, event_target, propagate, pc, received, event>>
otherVars == <<acc, changed, queue, systems, running, in_progress>>
restVars == <<acc, queue, systems, running, in_progress>>
vars == <<nextId, alive, comps, parent, declared, foo, bar, ret,
          K, original_event_target, event_target, propagate, pc, received,
          in_progress, event, acc, changed, queue, systems, running>>

\* ---------------------------------------------------------------- world
\* EntityRef::contains::<T>()
contains(e, T) == e \in alive /\ T \in comps[e]

InitWorld ==
    /\ nextId = 0
    /\ alive = {}
    /\ comps = [e \in {} |-> {}]
    /\ parent = [e \in {} |-> None]

\* world.spawn(bundle) / commands.spawn(bundle): a new entity without ChildOf;
\* its components are added in this tick, so they are marked changed
SpawnWorld(limit, bundle) ==
    /\ nextId < limit
    /\ nextId' = nextId + 1
    /\ alive' = alive \cup {nextId}
    /\ comps' = [e \in DOMAIN comps \cup {nextId} |->
                    IF e = nextId THEN bundle ELSE comps[e]]
    /\ parent' = [e \in DOMAIN parent \cup {nextId} |->
                    IF e = nextId THEN None ELSE parent[e]]
    /\ changed' = changed \cup {<<nextId, c>> : c \in bundle}

\* .with_children(|parent| parent.spawn(bundle)): a new entity with
\* ChildOf(the entity spawned just before)
SpawnChildWorld(limit, bundle) ==
    /\ nextId < limit
    /\ nextId > 0
    /\ (nextId - 1) \in alive
    /\ nextId' = nextId + 1
    /\ alive' = alive \cup {nextId}
    /\ comps' = [e \in DOMAIN comps \cup {nextId} |->
                    IF e = nextId THEN bundle ELSE comps[e]]
    /\ parent' = [e \in DOMAIN parent \cup {nextId} |->
                    IF e = nextId THEN Some(nextId - 1) ELSE parent[e]]
    /\ changed' = changed \cup {<<nextId, c>> : c \in bundle}

\* no accessor, no change mark, no deferred command, no system, no dispatch
InitOtherVars ==
    /\ acc = None
    /\ changed = {}
    /\ queue = <<>>
    /\ systems = <<>>
    /\ running = {}
    /\ in_progress = <<>>

\* GobbleGobble::default(): the payload the host raises
DefaultEvent == 0

\* no trigger is running
InitTriggerVars ==
    /\ event = DefaultEvent
    /\ K = "Apple"
    /\ original_event_target = EntityPLACEHOLDER
    /\ event_target = EntityPLACEHOLDER
    /\ propagate = FALSE
    /\ pc = "idle"
    /\ received = <<>>

\* ---------------------------------------------------------------- handles
\* struct Instance<T: Kind>(Entity, PhantomData<T>)
Instance(e, T) == [entity |-> e, kind |-> T]

\* Instance::from_entity_unchecked
from_entity_unchecked(e, T) == Instance(e, T)

\* Instance::PLACEHOLDER
PLACEHOLDER(T) == Instance(EntityPLACEHOLDER, T)

\* Instance::entity
entity(h) == h.entity

\* Instance::cast_into_unchecked
cast_into_unchecked_placeholder(h, U) == PLACEHOLDER(U)
cast_into_unchecked(h, U) == from_entity_unchecked(entity(h), U)

\* Instance::cast_into_any
cast_into_any(h) == cast_into_unchecked(h, "Any")

\* the bound `T: CastInto<U>`: the blanket impl CastInto<Any> for every T,
\* or an impl declared by safe_cast!(T => U)
implements_CastInto_declared_only(T, U) == <<T, U>> \in declared
implements_CastInto_reversible(T, U) ==
    U = "Any" \/ <<T, U>> \in declared \/ <<U, T>> \in declared
implements_CastInto(T, U) == U = "Any" \/ <<T, U>> \in declared

\* <T as CastInto<U>>::cast_into: the blanket impl for Any, else the body
\* safe_cast! generates
CastInto_cast_into(h, U) ==
    IF U = "Any" THEN from_entity_unchecked(entity(h), "Any")
                 ELSE cast_into_unchecked(h, U)

\* Instance::cast_into::<U>: None when the bound T: CastInto<U> is not met
\* and the call is rejected by the compiler
cast_into(h, U) ==
    IF implements_CastInto(h.kind, U) THEN Some(CastInto_cast_into(h, U))
                                      ELSE None

\* Instance::<T>::from_entity, T: Component
from_entity_always(e, T) == Some(from_entity_unchecked(e, T))
from_entity(e, T) ==
    IF contains(e, T) THEN Some(from_entity_unchecked(e, T)) ELSE None

\* impl Hash for Instance<T>: self.0.hash(state); the hasher state is the
\* sequence of values written to it
hash_with_kind(h, state) == Append(Append(state, h.entity), h.kind)
hash(h, state) == Append(state, h.entity)

\* impl PartialEq for Instance<T>: the right operand is Self, so operands of
\* different kinds do not type-check (None)
eq(a, b) == IF a.kind = b.kind THEN Some(a.entity = b.entity) ELSE None

\* impl PartialEq<Entity> for Instance<T>
eq_entity(h, e) == h.entity = e

\* impl PartialEq<Instance<T>> for Entity
entity_eq(e, h) == eq_entity(h, e)

\* the two local variables of the calling code that hold a handle
Registers == {"foo", "bar"}
reg(r) == IF r = "foo" THEN foo ELSE bar

\* ---------------------------------------------------------------- queries
\* the kinds a Query<Instance<T>> is run for: those of Kinds and NotFoo of
\* tests::kind_without (Filter = Without<Foo>)
QueryKinds == Kinds \cup {"NotApple"}

\* <T::Filter as WorldQuery>::matches_component_set: With<T> for a component,
\* Or<(With<Apple>, With<Orange>)> for Fruit, () for Any, Without<Apple> for
\* NotApple
matches_component_set_and(T, cs) ==
    CASE T \in Components -> T \in cs
      [] T = "Fruit" -> "Apple" \in cs /\ "Orange" \in cs
      [] T = "Any" -> TRUE
      [] T = "NotApple" -> "Apple" \notin cs
matches_component_set(T, cs) ==
    CASE T \in Components -> T \in cs
      [] T = "Fruit" -> "Apple" \in cs \/ "Orange" \in cs
      [] T = "Any" -> TRUE
      [] T = "NotApple" -> "Apple" \notin cs

\* <Instance<T> as QueryData>::fetch
fetch(e, T) == from_entity_unchecked(e, T)

\* Query<Instance<T>>::iter: the host visits the entities of every archetype
\* whose component set matches and fetches each of them once; ids upto n
RECURSIVE query_iter(_, _)
query_iter(T, n) ==
    IF n = 0 THEN <<>>
    ELSE LET e == n - 1
             rest == query_iter(T, e)
         IN IF e \in alive /\ matches_component_set(T, comps[e])
            THEN Append(rest, fetch(e, T))
            ELSE rest

InitHandleVars ==
    /\ declared \in RuleTables
    /\ foo = None
    /\ bar = None
    /\ ret = [op |-> "none"]

\* no rule is declared, no handle is held
InitHandleVarsIdle ==
    /\ declared = {}
    /\ foo = None
    /\ bar = None
    /\ ret = [op |-> "none"]

\* world.spawn(bundle)
Spawn ==
    /\ \E c \in Components : SpawnWorld(MaxEntities, {c})
    /\ ret' = [op |-> "spawn"]
    /\ UNCHANGED <<declared, foo, bar, triggerVars, restVars>>

\* EntityWorldMut::insert / EntityCommands::insert
Insert ==
    /\ \E e \in alive, c \in Components :
          /\ c \notin comps[e]
          /\ comps' = [comps EXCEPT ![e] = @ \cup {c}]
          /\ changed' = changed \cup {<<e, c>>}
    /\ ret' = [op |-> "insert"]
    /\ UNCHANGED <<nextId, alive, parent, declared, foo, bar, triggerVars,
                   restVars>>

\* EntityWorldMut::remove / EntityCommands::remove
Remove ==
    /\ \E e \in alive, c \in Components :
          /\ c \in comps[e]
          /\ comps' = [comps EXCEPT ![e] = @ \ {c}]
          /\ changed' = changed \ {<<e, c>>}
    /\ ret' = [op |-> "remove"]
    /\ UNCHANGED <<nextId, alive, parent, declared, foo, bar, triggerVars,
                   restVars>>

\* EntityCommands::despawn
Despawn ==
    /\ \E e \in alive :
          /\ alive' = alive \ {e}
          /\ comps' = [comps EXCEPT ![e] = {}]
          /\ changed' = changed \ {<<e, c>> : c \in Components}
    /\ ret' = [op |-> "despawn"]
    /\ UNCHANGED <<nextId, parent, declared, foo, bar, triggerVars, restVars>>

\* if let Some(i) = Instance::<T>::from_entity(world.entity(e)) { foo = i }
FromEntity_marking ==
    /\ \E e \in alive, T \in Components :
          LET out == from_entity(e, T) IN
          /\ ret' = [op |-> "from_entity", entity |-> e, kind |-> T, out |-> out]
          /\ foo' = IF out # None THEN out ELSE foo
          /\ bar' = IF out # None THEN None ELSE bar
          /\ changed' = changed \cup {<<e, T>>}
    /\ UNCHANGED <<worldVars, declared, triggerVars, restVars>>
FromEntity ==
    /\ \E e \in alive, T \in Components :
          LET out == from_entity(e, T) IN
          /\ ret' = [op |-> "from_entity", entity |-> e, kind |-> T, out |-> out]
          /\ foo' = IF out # None THEN out ELSE foo
          /\ bar' = IF out # None THEN None ELSE bar
    /\ UNCHANGED <<worldVars, declared, triggerVars, otherVars>>

\* foo = unsafe { Instance::<T>::from_entity_unchecked(e) }
FromEntityUnchecked ==
    /\ \E e \in 0..(nextId - 1), T \in Kinds :
          /\ ret' = [op |-> "from_entity_unchecked", entity |-> e, kind |-> T]
          /\ foo' = Some(from_entity_unchecked(e, T))
    /\ bar' = None
    /\ UNCHANGED <<worldVars, declared, triggerVars, otherVars>>

\* foo = Instance::<T>::PLACEHOLDER
Placeholder ==
    /\ \E T \in Kinds :
          /\ ret' = [op |-> "PLACEHOLDER", kind |-> T]
          /\ foo' = Some(PLACEHOLDER(T))
    /\ bar' = None
    /\ UNCHANGED <<worldVars, declared, triggerVars, otherVars>>

\* bar = foo.cast_into::<U>() or bar = bar.cast_into::<U>()
CastInto ==
    /\ \E r \in Registers, U \in Kinds :
          LET src == reg(r) IN
          /\ src # None
          /\ LET out == cast_into(src[1], U) IN
             /\ ret' = [op |-> "cast_into", self |-> src[1], kind |-> U,
                        out |-> out]
             /\ bar' = IF out # None THEN out ELSE bar
    /\ UNCHANGED <<worldVars, declared, foo, triggerVars, otherVars>>

\* bar = foo.cast_into_any() or bar = bar.cast_into_any()
CastIntoAny ==
    /\ \E r \in Registers :
          LET src == reg(r) IN
          /\ src # None
          /\ ret' = [op |-> "cast_into_any", self |-> src[1],
                     out |-> Some(cast_into_any(src[1]))]
          /\ bar' = Some(cast_into_any(src[1]))
    /\ UNCHANGED <<worldVars, declared, foo, triggerVars, otherVars>>

\* bar = unsafe { foo.cast_into_unchecked::<U>() }
CastIntoUnchecked ==
    /\ \E r \in Registers, U \in Kinds :
          LET src == reg(r) IN
          /\ src # None
          /\ ret' = [op |-> "cast_into_unchecked", self |-> src[1], kind |-> U,
                     out |-> Some(cast_into_unchecked(src[1], U))]
          /\ bar' = Some(cast_into_unchecked(src[1], U))
    /\ UNCHANGED <<worldVars, declared, foo, triggerVars, otherVars>>

\* for i in query.iter() { .. foo = i .. } in a system with the parameter
\* query: Query<Instance<T>>
Query ==
    /\ \E T \in QueryKinds :
          LET out == query_iter(T, nextId) IN
          /\ ret' = [op |-> "query", kind |-> T, out |-> out]
          /\ \/ /\ out = <<>>
                /\ UNCHANGED <<foo, bar>>
             \/ \E i \in DOMAIN out :
                   /\ foo' = Some(out[i])
                   /\ bar' = None
    /\ UNCHANGED <<worldVars, declared, triggerVars, otherVars>>

\* foo == bar, the two hashes, foo == bar.entity(), foo.entity() == bar and
\* foo.cast_into_any() == bar.cast_into_any(), as in tests::kind_cast
Compare ==
    /\ foo # None /\ bar # None
    /\ LET l == foo[1]
           r == bar[1]
       IN ret' = [op |-> "compare", lhs |-> l, rhs |-> r,
                  eq |-> eq(l, r),
                  hash_lhs |-> hash(l, <<>>),
                  hash_rhs |-> hash(r, <<>>),
                  eq_entity |-> eq_entity(l, entity(r)),
                  entity_eq |-> entity_eq(entity(l), r),
                  eq_any |-> eq(cast_into_any(l), cast_into_any(r))]
    /\ UNCHANGED <<worldVars, declared, foo, bar, triggerVars, otherVars>>

Init ==
    InitWorld /\ InitHandleVars /\ InitTriggerVars /\ InitOtherVars

Next ==
    \/ Spawn
    \/ Insert
    \/ Remove
    \/ Despawn
    \/ FromEntity
    \/ FromEntityUnchecked
    \/ Placeholder
    \/ CastInto
    \/ CastIntoAny
    \/ CastIntoUnchecked
    \/ Compare

Spec == Init /\ [][Next]_vars

\* code that calls no unsafe function: the world operations, the validated
\* constructors, PLACEHOLDER and the safe casts
NextSafe ==
    \/ Spawn
    \/ Insert
    \/ Remove
    \/ Despawn
    \/ FromEntity
    \/ Query
    \/ Placeholder
    \/ CastInto
    \/ CastIntoAny

SpecSafe == Init /\ [][NextSafe]_vars

\* an EntityMapper of a world merge: a map of the ids, PLACEHOLDER included
MapperIds == (0..(MaxEntities - 1)) \cup {EntityPLACEHOLDER}
Mappers == [MapperIds -> MapperIds]

\* EntityMapper::get_mapped
get_mapped(mapper, e) == mapper[e]

\* <Instance<T> as MapEntities>::map_entities:
\* self.0 = entity_mapper.get_mapped(self.0)
map_entities_identity(h, mapper) == h
map_entities(h, mapper) == [h EXCEPT !.entity = get_mapped(mapper, h.entity)]

\* foo.map_entities(&mut mapper)
MapEntities ==
    /\ foo # None
    /\ \E mapper \in Mappers :
          /\ ret' = [op |-> "map_entities", self |-> foo[1],
                     mapper |-> mapper, out |-> map_entities(foo[1], mapper)]
          /\ foo' = Some(map_entities(foo[1], mapper))
    /\ bar' = None
    /\ UNCHANGED <<worldVars, declared, triggerVars, otherVars>>

InitMap ==
    /\ InitWorld /\ InitHandleVarsIdle /\ InitTriggerVars /\ InitOtherVars

NextMap ==
    \/ Spawn
    \/ FromEntity
    \/ Placeholder
    \/ MapEntities

SpecMap == InitMap /\ [][NextMap]_vars

\* ---------------------------------------------------------------- trigger
\* line 62: world.entity(self.event_target).contains::<K>() on the entity the
\* event was raised for
triggered_is_kind_always == TRUE
triggered_is_kind_inverted == ~contains(event_target, K)
triggered_is_kind == contains(event_target, K)

\* line 100: world.entity(self.event_target).contains::<K>() on the entity a
\* hop reached
ancestor_is_kind_always == TRUE
ancestor_is_kind == contains(event_target, K)

\* line 89: `if !self.propagate { return; }`
stop_propagation_never == FALSE
stop_propagation == ~propagate

\* world.get_entity(self.event_target) / get_components::<T>() / T::traverse:
\* the ChildOf traversal yields the parent, if any
traverse(e) == IF e \in alive THEN parent[e] ELSE None

\* the world while a trigger runs: setup spawns the hierarchy
Spawn_T ==
    /\ pc = "idle"
    /\ \E c \in Components : SpawnWorld(MaxChain, {c})
    /\ UNCHANGED <<handleVars, triggerVars, restVars>>

SpawnChild_T ==
    /\ pc = "idle"
    /\ \E c \in Components : SpawnChildWorld(MaxChain, {c})
    /\ UNCHANGED <<handleVars, triggerVars, restVars>>

\* InstanceTrigger::new(event_target, propagate), then the host calls trigger
Raise ==
    /\ pc = "idle"
    /\ \E target \in alive, p \in BOOLEAN, k \in Components :
          /\ K' = k
          /\ original_event_target' = target
          /\ event_target' = target
          /\ propagate' = p
          /\ ret' = [op |-> "InstanceTrigger::new", event_target |-> target,
                     propagate |-> p]
    /\ pc' = "check"
    /\ received' = <<>>
    /\ UNCHANGED <<event, worldVars, declared, foo, bar, otherVars>>

\* lines 62-68: panic when the triggered entity is not of kind K
CheckKind ==
    /\ pc = "check"
    /\ pc' = IF triggered_is_kind THEN "dispatch" ELSE "panicked"
    /\ UNCHANGED <<event, worldVars, handleVars, otherVars, K,
                   original_event_target, event_target, propagate, received>>

\* lines 76-86 and 112-122: trigger_entity_internal runs the observers of
\* event_target; an observer may write the pub field `propagate`
Dispatch ==
    /\ pc = "dispatch"
    /\ \E p \in BOOLEAN :
          /\ propagate' = p
          /\ received' = Append(received,
                                [target |-> event_target, propagate |-> p])
    /\ pc' = "loop"
    /\ UNCHANGED <<event, worldVars, handleVars, otherVars, K,
                   original_event_target, event_target>>

\* lines 88-91: the head of the loop
LoopHead ==
    /\ pc = "loop"
    /\ pc' = IF stop_propagation THEN "done" ELSE "traverse"
    /\ UNCHANGED <<event, worldVars, handleVars, otherVars, K,
                   original_event_target, event_target, propagate, received>>

\* lines 92-99: one hop, or break
Traverse_retarget ==
    /\ pc = "traverse"
    /\ IF traverse(event_target) # None
          THEN /\ event_target' = traverse(event_target)[1]
               /\ pc' = "filter"
          ELSE /\ event_target' = event_target
               /\ pc' = "done"
    /\ original_event_target' = event_target'
    /\ UNCHANGED <<event, worldVars, handleVars, otherVars, K, propagate, received>>
Traverse_stay ==
    /\ pc = "traverse"
    /\ IF traverse(event_target) # None
          THEN /\ event_target' = event_target
               /\ pc' = "filter"
          ELSE /\ event_target' = event_target
               /\ pc' = "done"
    /\ UNCHANGED <<event, worldVars, handleVars, otherVars, K,
                   original_event_target, propagate, received>>
Traverse ==
    /\ pc = "traverse"
    /\ IF traverse(event_target) # None
          THEN /\ event_target' = traverse(event_target)[1]
               /\ pc' = "filter"
          ELSE /\ event_target' = event_target
               /\ pc' = "done"
    /\ UNCHANGED <<event, worldVars, handleVars, otherVars, K,
                   original_event_target, propagate, received>>

\* lines 100-105: jump over an ancestor without K
FilterKind_break ==
    /\ pc = "filter"
    /\ pc' = IF ancestor_is_kind THEN "dispatch" ELSE "done"
    /\ UNCHANGED <<event, worldVars, handleVars, otherVars, K,
                   original_event_target, event_target, propagate, received>>
FilterKind ==
    /\ pc = "filter"
    /\ pc' = IF ancestor_is_kind THEN "dispatch" ELSE "loop"
    /\ UNCHANGED <<event, worldVars, handleVars, otherVars, K,
                   original_event_target, event_target, propagate, received>>

InitTrigger ==
    /\ InitWorld /\ InitTriggerVars /\ InitHandleVarsIdle
    /\ InitOtherVars

NextTrigger ==
    \/ Spawn_T
    \/ SpawnChild_T
    \/ Raise
    \/ CheckKind
    \/ Dispatch
    \/ LoopHead
    \/ Traverse
    \/ FilterKind

SpecTrigger == InitTrigger /\ [][NextTrigger]_vars

\* the steps of one call of trigger; the call is synchronous, so a step that
\* can be taken is taken
TriggerStep ==
    \/ CheckKind
    \/ Dispatch
    \/ LoopHead
    \/ Traverse
    \/ FilterKind

SpecTriggerLive ==
    InitTrigger /\ [][NextTrigger]_vars /\ WF_vars(TriggerStep)

\* lines 76-86 and 112-122 in three steps: the call of
\* trigger_entity_internal, the observers it runs, its return
DispatchCall_detached ==
    /\ pc = "dispatch"
    /\ in_progress' = Append(in_progress, event_target)
    /\ pc' = "loop"
    /\ UNCHANGED <<event, worldVars, handleVars, acc, changed, queue, systems,
                   running, K, original_event_target, event_target, propagate,
                   received>>
DispatchCall ==
    /\ pc = "dispatch"
    /\ in_progress' = Append(in_progress, event_target)
    /\ pc' = "observers"
    /\ UNCHANGED <<event, worldVars, handleVars, acc, changed, queue, systems,
                   running, K, original_event_target, event_target, propagate,
                   received>>

\* an observer of the entity runs; it may write the pub field `propagate`
Observer_until_cleared ==
    /\ pc = "observers"
    /\ propagate
    /\ \E p \in BOOLEAN : propagate' = p
    /\ UNCHANGED <<event, worldVars, handleVars, otherVars, K,
                   original_event_target, event_target, pc, received>>
Observer ==
    /\ pc = "observers"
    /\ \E p \in BOOLEAN : propagate' = p
    /\ UNCHANGED <<event, worldVars, handleVars, otherVars, K,
                   original_event_target, event_target, pc, received>>

\* trigger_entity_internal returns to trigger
DispatchReturn ==
    /\ pc = "observers"
    /\ in_progress' = SubSeq(in_progress, 1, Len(in_progress) - 1)
    /\ received' = Append(received, [target |-> in_progress[Len(in_progress)],
                                     propagate |-> propagate])
    /\ pc' = "loop"
    /\ UNCHANGED <<event, worldVars, handleVars, acc, changed, queue, systems,
                   running, K, original_event_target, event_target, propagate>>

NextTriggerSteps ==
    \/ Spawn_T
    \/ SpawnChild_T
    \/ Raise
    \/ CheckKind
    \/ DispatchCall
    \/ Observer
    \/ DispatchReturn
    \/ LoopHead
    \/ Traverse
    \/ FilterKind

SpecTriggerSteps == InitTrigger /\ [][NextTriggerSteps]_vars

\* -------------------------------------------------------------- scheduler
\* the systems of a schedule, each with one Query<item<T>> parameter
MaxSystems == 2
QueryItems == {"Instance", "InstanceRef", "InstanceMut"}

\* an Access<ComponentId>: the components read and the components written
Access(reads, writes) == [reads |-> reads, writes |-> writes]

\* WorldQuery::update_component_access of the three query items: Instance<T>
\* forwards to T::Filter = With<T>, which declares no component access;
\* InstanceRef<T> and InstanceMut<T> both forward to (Instance<T>, &T), which
\* declares a read of T
update_component_access(item, T) ==
    CASE item = "Instance" -> Access({}, {})
      [] item = "InstanceRef" -> Access({T}, {})
      [] item = "InstanceMut" -> Access({T}, {})

\* QueryData::fetch of the three query items: the borrow of T they hand out;
\* InstanceMut fetches through (Instance<T>, &mut T)
fetch_borrow(item) ==
    CASE item = "Instance" -> "none"
      [] item = "InstanceRef" -> "&T"
      [] item = "InstanceMut" -> "&mut T"

\* Access::is_compatible of the host: no write of one is read or written by
\* the other
is_compatible(a, b) ==
    /\ a.writes \cap (b.reads \cup b.writes) = {}
    /\ b.writes \cap (a.reads \cup a.writes) = {}

\* App::add_systems: the access of the system is that of its query
AddSystem ==
    /\ Len(systems) < MaxSystems
    /\ running = {}
    /\ \E item \in QueryItems, T \in Components :
          /\ systems' = Append(systems,
                 [item |-> item, kind |-> T,
                  access |-> update_component_access(item, T)])
          /\ ret' = [op |-> "add_systems", item |-> item, kind |-> T]
    /\ UNCHANGED <<worldVars, declared, foo, bar, triggerVars, acc, changed,
                   queue, running, in_progress>>

\* the executor starts a system on a worker thread when its access is
\* compatible with the access of every running system
RunSystem ==
    /\ \E i \in DOMAIN systems \ running :
          /\ \A j \in running :
                is_compatible(systems[i].access, systems[j].access)
          /\ running' = running \cup {i}
          /\ ret' = [op |-> "run", system |-> i]
    /\ UNCHANGED <<worldVars, declared, foo, bar, triggerVars, acc, changed,
                   queue, systems, in_progress>>

\* a running system iterates its query and uses the borrow of an item
UseItem ==
    /\ \E i \in running :
          ret' = [op |-> "fetch", system |-> i, kind |-> systems[i].kind,
                  borrow |-> fetch_borrow(systems[i].item)]
    /\ UNCHANGED <<worldVars, declared, foo, bar, triggerVars, otherVars>>

\* a running system returns
FinishSystem ==
    /\ \E i \in running :
          /\ running' = running \ {i}
          /\ ret' = [op |-> "finish", system |-> i]
    /\ UNCHANGED <<worldVars, declared, foo, bar, triggerVars, acc, changed,
                   queue, systems, in_progress>>

InitSched ==
    /\ InitWorld /\ InitHandleVarsIdle /\ InitTriggerVars /\ InitOtherVars

NextSched ==
    \/ AddSystem
    \/ RunSystem
    \/ UseItem
    \/ FinishSystem

SpecSched == InitSched /\ [][NextSched]_vars

\* -------------------------------------------------------------- accessors
AccessorTypes ==
    {"InstanceRef", "InstanceMut", "InstanceWorldMut", "InstanceCommands"}

\* an accessor: its type and the handle it carries or gives by instance();
\* the data it borrows, if any, is the component <<entity, kind>>
Accessor(type, h) == [type |-> type, instance |-> h]

\* EntityRef::get::<T>(): a borrow of the component, if the entity has it
get(e, T) == IF contains(e, T) THEN Some(<<e, T>>) ELSE None

\* EntityWorldMut::get_mut::<T>()
get_mut(e, T) == IF contains(e, T) THEN Some(<<e, T>>) ELSE None

\* InstanceRef::from_entity: data: entity.get()?
InstanceRef_from_entity(e, T) ==
    IF get(e, T) # None
    THEN Some(Accessor("InstanceRef", from_entity_unchecked(e, T)))
    ELSE None

\* InstanceMut::from_entity: let data = entity.get_mut::<T>()?
InstanceMut_from_entity(e, T) ==
    IF get_mut(e, T) # None
    THEN Some(Accessor("InstanceMut", from_entity_unchecked(e, T)))
    ELSE None

\* InstanceWorldMut::from_entity_unchecked
InstanceWorldMut_from_entity_unchecked(e, T) ==
    Accessor("InstanceWorldMut", from_entity_unchecked(e, T))

\* InstanceWorldMut::from_entity
InstanceWorldMut_from_entity_always(e, T) ==
    Some(InstanceWorldMut_from_entity_unchecked(e, T))
InstanceWorldMut_from_entity(e, T) ==
    IF contains(e, T) THEN Some(InstanceWorldMut_from_entity_unchecked(e, T))
                      ELSE None

\* InstanceCommands::from_entity_unchecked
InstanceCommands_from_entity_unchecked(e, T) ==
    Accessor("InstanceCommands", from_entity_unchecked(e, T))

\* InstanceCommands::from_entity
InstanceCommands_from_entity(e, T) ==
    IF contains(e, T) THEN Some(InstanceCommands_from_entity_unchecked(e, T))
                      ELSE None

\* <Commands as GetInstanceCommands<T>>::instance: a safe function that
\* wraps commands.entity(instance.entity()) without a look at the world
instance_any(h) == Accessor("InstanceCommands", Instance(entity(h), "Any"))
instance(h) == Accessor("InstanceCommands", Instance(entity(h), h.kind))

\* the four safe constructors, by the type of the accessor
accessor_from_entity(type, e, T) ==
    CASE type = "InstanceRef" -> InstanceRef_from_entity(e, T)
      [] type = "InstanceMut" -> InstanceMut_from_entity(e, T)
      [] type = "InstanceWorldMut" -> InstanceWorldMut_from_entity(e, T)
      [] type = "InstanceCommands" -> InstanceCommands_from_entity(e, T)

\* the two unsafe constructors
accessor_from_entity_unchecked(type, e, T) ==
    CASE type = "InstanceWorldMut" -> InstanceWorldMut_from_entity_unchecked(e, T)
      [] type = "InstanceCommands" -> InstanceCommands_from_entity_unchecked(e, T)

\* world operations of code that holds no accessor: an accessor borrows the
\* world or the command buffer
WorldStep ==
    /\ acc = None
    /\ \/ Spawn
       \/ Insert
       \/ Remove
       \/ Despawn

\* if let Some(a) = X::<T>::from_entity(world.entity(e)) { .. }
AccessorFromEntity ==
    /\ acc = None
    /\ \E type \in AccessorTypes, e \in alive, T \in Components :
          LET out == accessor_from_entity(type, e, T) IN
          /\ ret' = [op |-> "accessor_from_entity", type |-> type,
                     entity |-> e, kind |-> T, out |-> out]
          /\ acc' = out
    /\ UNCHANGED <<worldVars, declared, foo, bar, triggerVars, changed, queue,
                   systems, running, in_progress>>

\* let a = unsafe { X::<T>::from_entity_unchecked(world.entity_mut(e)) }
AccessorFromEntityUnchecked ==
    /\ acc = None
    /\ \E type \in {"InstanceWorldMut", "InstanceCommands"}, e \in alive,
          T \in Kinds :
          LET out == Some(accessor_from_entity_unchecked(type, e, T)) IN
          /\ ret' = [op |-> "accessor_from_entity_unchecked", type |-> type,
                     entity |-> e, kind |-> T, out |-> out]
          /\ acc' = out
    /\ UNCHANGED <<worldVars, declared, foo, bar, triggerVars, changed, queue,
                   systems, running, in_progress>>

\* let a = commands.instance(foo), as in examples/fruits.rs
CommandsInstance ==
    /\ acc = None
    /\ foo # None
    /\ ret' = [op |-> "instance", self |-> foo[1],
               out |-> Some(instance(foo[1]))]
    /\ acc' = Some(instance(foo[1]))
    /\ UNCHANGED <<worldVars, declared, foo, bar, triggerVars, changed, queue,
                   systems, running, in_progress>>

\* the accessor goes out of scope
DropAccessor ==
    /\ acc # None
    /\ acc' = None
    /\ ret' = [op |-> "drop"]
    /\ UNCHANGED <<worldVars, declared, foo, bar, triggerVars, changed, queue,
                   systems, running, in_progress>>

NextAccessors ==
    \/ WorldStep
    \/ FromEntity
    \/ AccessorFromEntity
    \/ AccessorFromEntityUnchecked
    \/ CommandsInstance
    \/ DropAccessor

SpecAccessors == InitSched /\ [][NextAccessors]_vars

\* ------------------------------------------------------- change detection
\* Mut<T> of the host, on the set of the components marked changed:
\* as_ref reads, as_mut and set_changed mark, bypass_change_detection gives
\* the value without a mark
Mut_as_ref(marks, slot) == marks
Mut_as_mut_bypass(marks, slot) == marks
Mut_as_mut(marks, slot) == marks \cup {slot}
Mut_bypass_change_detection(marks, slot) == marks
Mut_set_changed(marks, slot) == marks \cup {slot}
Mut_is_changed(marks, slot) == slot \in marks

InstanceMutMethods ==
    {"deref", "deref_mut", "as_ref", "as_mut", "bypass_change_detection",
     "set_changed"}

\* the methods of InstanceMut forward to self.data, a Mut<T>
InstanceMut_call(method, marks, slot) ==
    CASE method = "deref" -> Mut_as_ref(marks, slot)
      [] method = "deref_mut" -> Mut_as_mut(marks, slot)
      [] method = "as_ref" -> Mut_as_ref(marks, slot)
      [] method = "as_mut" -> Mut_as_mut(marks, slot)
      [] method = "bypass_change_detection" ->
            Mut_bypass_change_detection(marks, slot)
      [] method = "set_changed" -> Mut_set_changed(marks, slot)

\* a call of a method of the InstanceMut held
UseInstanceMut ==
    /\ acc # None
    /\ acc[1].type = "InstanceMut"
    /\ \E method \in InstanceMutMethods :
          LET slot == <<acc[1].instance.entity, acc[1].instance.kind>> IN
          /\ changed' = InstanceMut_call(method, changed, slot)
          /\ ret' = [op |-> method, slot |-> slot,
                     was_changed |-> Mut_is_changed(changed, slot)]
    /\ UNCHANGED <<worldVars, declared, foo, bar, triggerVars, acc, queue,
                   systems, running, in_progress>>

\* the next run of the consumer: no component is changed since its last run
ClearTrackers ==
    /\ acc = None
    /\ changed # {}
    /\ changed' = {}
    /\ ret' = [op |-> "clear_trackers"]
    /\ UNCHANGED <<worldVars, declared, foo, bar, triggerVars, acc, queue,
                   systems, running, in_progress>>

NextChange ==
    \/ WorldStep
    \/ FromEntity
    \/ AccessorFromEntity
    \/ UseInstanceMut
    \/ ClearTrackers
    \/ DropAccessor

SpecChange == InitSched /\ [][NextChange]_vars

\* ---------------------------------------------------------- spawn_instance
\* the commands a Commands buffer holds before it is applied
MaxQueue == 2

\* <T as KindBundle>::Kind of the blanket impl: the component itself
KindBundle_Kind_apple(T) == "Apple"
KindBundle_Kind(T) == T

\* World::get_mut::<T>(entity)
World_get_mut(e, T) ==
    IF e \in alive /\ T \in comps[e] THEN Some(<<e, T>>) ELSE None

\* InstanceMutItem::from_entity(world, entity): world.get_mut(entity).map(..)
InstanceMutItem_from_entity(e, T) ==
    IF World_get_mut(e, T) # None
    THEN Some(Accessor("InstanceMut", from_entity_unchecked(e, T)))
    ELSE None

\* <World as SpawnInstanceWorld>::spawn_instance(instance): the spawn, then
\* from_entity(self, entity).unwrap(), which panics on None
SpawnInstanceWorld ==
    /\ acc = None
    /\ \E T \in Components, e \in {nextId} :
          /\ SpawnWorld(MaxEntities, {T})
          /\ acc' = InstanceMutItem_from_entity(e, T)'
          /\ ret' = [op |-> "World::spawn_instance", entity |-> e,
                     kind |-> T,
                     out |-> IF acc' # None THEN acc' ELSE Some("panic")]
    /\ UNCHANGED <<declared, foo, bar, triggerVars, queue, systems, running,
                   in_progress>>

\* <Commands as SpawnInstance>::spawn_instance(bundle): Commands::spawn
\* reserves the id and queues the spawn; the accessor is built unchecked
SpawnInstanceCommands ==
    /\ acc = None
    /\ nextId < MaxEntities
    /\ Len(queue) < MaxQueue
    /\ \E T \in Components :
          LET out == InstanceCommands_from_entity_unchecked(
                         nextId, KindBundle_Kind(T)) IN
          /\ queue' = Append(queue, [cmd |-> "spawn", entity |-> nextId,
                                     bundle |-> {T}])
          /\ acc' = Some(out)
          /\ ret' = [op |-> "Commands::spawn_instance", entity |-> nextId,
                     bundle |-> {T}, out |-> Some(out)]
    /\ nextId' = nextId + 1
    /\ UNCHANGED <<alive, comps, parent, declared, foo, bar, triggerVars,
                   changed, systems, running, in_progress>>

\* InstanceCommands::insert / InstanceCommands::remove: the command is queued
\* for the entity of the accessor
CommandsQueueUpTo(limit) ==
    /\ acc # None
    /\ acc[1].type = "InstanceCommands"
    /\ Len(queue) < limit
    /\ \E cmd \in {"insert", "remove"}, c \in Components :
          /\ queue' = Append(queue, [cmd |-> cmd,
                                     entity |-> acc[1].instance.entity,
                                     bundle |-> {c}])
          /\ ret' = [op |-> cmd, component |-> c]
    /\ UNCHANGED <<worldVars, declared, foo, bar, triggerVars, acc, changed,
                   systems, running, in_progress>>

CommandsQueue == CommandsQueueUpTo(MaxQueue)

\* the host applies the first command of the buffer; a command for an entity
\* that does not exist fails and changes nothing
ApplyCommand ==
    /\ acc = None
    /\ queue # <<>>
    /\ LET c == Head(queue)
           e == c.entity
       IN /\ CASE c.cmd = "spawn" ->
                    /\ alive' = alive \cup {e}
                    /\ comps' = [x \in DOMAIN comps \cup {e} |->
                                    IF x = e THEN c.bundle ELSE comps[x]]
                    /\ parent' = [x \in DOMAIN parent \cup {e} |->
                                     IF x = e THEN None ELSE parent[x]]
                    /\ changed' = changed \cup {<<e, b>> : b \in c.bundle}
               [] c.cmd = "insert" /\ e \in alive ->
                    /\ comps' = [comps EXCEPT ![e] = @ \cup c.bundle]
                    /\ changed' = changed \cup {<<e, b>> : b \in c.bundle}
                    /\ UNCHANGED <<alive, parent>>
               [] c.cmd = "remove" /\ e \in alive ->
                    /\ comps' = [comps EXCEPT ![e] = @ \ c.bundle]
                    /\ changed' = changed \ {<<e, b>> : b \in c.bundle}
                    /\ UNCHANGED <<alive, parent>>
               [] OTHER -> UNCHANGED <<alive, comps, parent, changed>>
          /\ ret' = [op |-> "apply", cmd |-> c]
    /\ queue' = Tail(queue)
    /\ UNCHANGED <<nextId, declared, foo, bar, triggerVars, acc, systems,
                   running, in_progress>>

NextSpawn ==
    \/ WorldStep
    \/ SpawnInstanceWorld
    \/ SpawnInstanceCommands
    \/ CommandsQueue
    \/ ApplyCommand
    \/ DropAccessor

SpecSpawn == InitSched /\ [][NextSpawn]_vars


\* ------------------------------------------------ the event payload
\* trigger receives `event: &mut E` and hands the same reference to every
\* trigger_entity_internal call (event.into(), lines 80 and 116) and to
\* T::traverse(item, event) (line 96)
MaxEvent == 1
MaxEventChain == 3
Events == 0..MaxEvent

Spawn_E ==
    /\ pc = "idle"
    /\ \E c \in Components : SpawnWorld(MaxEventChain, {c})
    /\ UNCHANGED <<handleVars, triggerVars, restVars>>

SpawnChild_E ==
    /\ pc = "idle"
    /\ \E c \in Components : SpawnChildWorld(MaxEventChain, {c})
    /\ UNCHANGED <<handleVars, triggerVars, restVars>>

\* an observer of the entity runs with the event it was handed; it may
\* write the payload through the reference
ObserverEvent_by_value ==
    /\ pc = "observers"
    /\ \E v \in Events :
          /\ event' = event
          /\ ret' = [op |-> "observer", event |-> event, wrote |-> v]
    /\ UNCHANGED <<worldVars, declared, foo, bar, otherVars, K,
                   original_event_target, event_target, propagate, pc,
                   received>>
ObserverEvent ==
    /\ pc = "observers"
    /\ \E v \in Events :
          /\ event' = v
          /\ ret' = [op |-> "observer", event |-> event, wrote |-> v]
    /\ UNCHANGED <<worldVars, declared, foo, bar, otherVars, K,
                   original_event_target, event_target, propagate, pc,
                   received>>

\* lines 92-99 with the argument the relation function is called with
TraverseEvent ==
    /\ pc = "traverse"
    /\ IF traverse(event_target) # None
          THEN /\ event_target' = traverse(event_target)[1]
               /\ pc' = "filter"
          ELSE /\ event_target' = event_target
               /\ pc' = "done"
    /\ ret' = [op |-> "traverse", event |-> event]
    /\ UNCHANGED <<event, worldVars, declared, foo, bar, otherVars, K,
                   original_event_target, propagate, received>>

NextPayload ==
    \/ Spawn_E
    \/ SpawnChild_E
    \/ Raise
    \/ CheckKind
    \/ DispatchCall
    \/ Observer
    \/ ObserverEvent
    \/ DispatchReturn
    \/ LoopHead
    \/ TraverseEvent
    \/ FilterKind

SpecPayload == InitTrigger /\ [][NextPayload]_vars

\* ------------------------------------------------ the query protocol
\* the WorldQuery operations the host calls on a query item, and the
\* associated constant IS_DENSE
WorldQueryOps ==
    {"init_fetch", "set_archetype", "set_table", "update_component_access",
     "get_state", "init_state", "matches_component_set", "IS_DENSE"}

\* the component set of an archetype or table
Archetypes == SUBSET Components

\* a Fetch: the `matches` flags an Or filter keeps for its members, and the
\* column a borrow of T points to
Fetch(filter, column) == [filter |-> filter, column |-> column]

\* the result of one operation: the Fetch it leaves and the value it returns
Called(f, out) == [fetch |-> f, out |-> out]

\* the members of T::Filter
FilterTerms(T) ==
    CASE T \in Components -> {T}
      [] T = "Fruit" -> {"Apple", "Orange"}
      [] T = "Any" -> {}
      [] T = "NotApple" -> {"Apple"}

\* <T::Filter as WorldQuery>: With, Without and () keep no fetch state; Or
\* records in set_archetype / set_table which members match
Filter_WorldQuery(op, T, f, cs) ==
    CASE op = "init_fetch" -> Called({}, None)
      [] op \in {"set_archetype", "set_table"} ->
            Called(IF T = "Fruit" THEN FilterTerms(T) \cap cs ELSE f, None)
      [] op = "update_component_access" -> Called(f, Access({}, {}))
      [] op \in {"get_state", "init_state"} -> Called(f, FilterTerms(T))
      [] op = "matches_component_set" ->
            Called(f, matches_component_set(T, cs))
      [] op = "IS_DENSE" -> Called(f, TRUE)

\* <Instance<T> as WorldQuery>: every operation forwards to T::Filter except
\* set_archetype, whose body is empty
Instance_WorldQuery(op, T, f, cs) ==
    IF op = "set_archetype" THEN Called(f, None)
    ELSE Filter_WorldQuery(op, T, f, cs)

\* <&T as WorldQuery> and <&mut T as WorldQuery>
Borrow_WorldQuery(mutable, op, T, c, cs) ==
    CASE op = "init_fetch" -> Called(None, None)
      [] op \in {"set_archetype", "set_table"} -> Called(Some(cs), None)
      [] op = "update_component_access" ->
            Called(c, Access({T}, IF mutable THEN {T} ELSE {}))
      [] op \in {"get_state", "init_state"} -> Called(c, {T})
      [] op = "matches_component_set" -> Called(c, T \in cs)
      [] op = "IS_DENSE" -> Called(c, TRUE)

\* the tuple (Instance<T>, &T) or (Instance<T>, &mut T): each operation is
\* applied to both members
Pair_WorldQuery(mutable, op, T, f, cs) ==
    LET a == Instance_WorldQuery(op, T, f.filter, cs)
        b == Borrow_WorldQuery(mutable, op, T, f.column, cs)
    IN Called(Fetch(a.fetch, b.fetch),
              CASE op = "update_component_access" ->
                      Access(a.out.reads \cup b.out.reads,
                             a.out.writes \cup b.out.writes)
                [] op \in {"matches_component_set", "IS_DENSE"} ->
                      a.out /\ b.out
                [] op \in {"get_state", "init_state"} -> <<a.out, b.out>>
                [] OTHER -> None)

\* <InstanceRef<T> as WorldQuery>: every operation forwards to
\* (Instance<T>, &T)
InstanceRef_WorldQuery(op, T, f, cs) == Pair_WorldQuery(FALSE, op, T, f, cs)

\* <InstanceMut<T> as WorldQuery>: init_fetch, set_archetype and set_table
\* forward to (Instance<T>, &mut T), the others to (Instance<T>, &T)
InstanceMut_WorldQuery(op, T, f, cs) ==
    IF op \in {"init_fetch", "set_archetype", "set_table"}
    THEN Pair_WorldQuery(TRUE, op, T, f, cs)
    ELSE Pair_WorldQuery(FALSE, op, T, f, cs)

\* the Fetch of a query item before init_fetch
NoFetch(item) == IF item = "Instance" THEN {} ELSE Fetch({}, None)

\* the host calls one operation of a query item; set_archetype and set_table
\* are called on the Fetch the earlier calls on that item left
QueryProtocol ==
    /\ \E item \in QueryItems, op \in WorldQueryOps, cs \in Archetypes :
          \E T \in IF item = "Instance" THEN QueryKinds ELSE Components :
             LET continued == /\ ret.op = "world_query"
                              /\ ret.item = item /\ ret.kind = T
                 f == IF continued THEN ret.out.fetch ELSE NoFetch(item)
             IN /\ op \in {"set_archetype", "set_table"} => continued
                /\ ret' = [op |-> "world_query", item |-> item, kind |-> T,
                           call |-> op, archetype |-> cs, fetch |-> f,
                           out |-> CASE item = "Instance" ->
                                          Instance_WorldQuery(op, T, f, cs)
                                     [] item = "InstanceRef" ->
                                          InstanceRef_WorldQuery(op, T, f, cs)
                                     [] item = "InstanceMut" ->
                                          InstanceMut_WorldQuery(op, T, f, cs)]
    /\ UNCHANGED <<worldVars, declared, foo, bar, triggerVars, otherVars>>

NextProtocol == QueryProtocol

SpecProtocol == InitSched /\ [][NextProtocol]_vars

\* ------------------------------------------------ ordering of handles
\* the index of an Entity, by which ids are ordered: that of a spawned entity,
\* u32::MAX for Entity::PLACEHOLDER, as its high and low 16 bits (no entity
\* is despawned and respawned here, so the generation is the same for all)
Entity_index(e) ==
    IF e = EntityPLACEHOLDER THEN <<65535, 65535>>
    ELSE <<e \div 65536, e % 65536>>

\* <Entity as Ord>::cmp
Entity_cmp(a, b) ==
    LET x == Entity_index(a)
        y == Entity_index(b)
    IN CASE x[1] < y[1] \/ (x[1] = y[1] /\ x[2] < y[2]) -> "Less"
         [] x = y -> "Equal"
         [] OTHER -> "Greater"

\* impl Ord for Instance<T>: self.0.cmp(&other.0); the right operand is Self,
\* so operands of different kinds do not type-check (None)
cmp_reversed(a, b) ==
    IF a.kind = b.kind THEN Some(Entity_cmp(b.entity, a.entity)) ELSE None
cmp(a, b) ==
    IF a.kind = b.kind THEN Some(Entity_cmp(a.entity, b.entity)) ELSE None

\* impl PartialOrd for Instance<T>: Some(self.cmp(other))
partial_cmp(a, b) == IF cmp(a, b) = None THEN None ELSE Some(cmp(a, b)[1])

\* foo is compared with a second handle of its kind and with that handle's
\* raw entity, in both operand orders
CompareSameKind ==
    /\ foo # None
    /\ \E e \in (0..(nextId - 1)) \cup {EntityPLACEHOLDER} :
          LET l == foo[1]
              r == from_entity_unchecked(e, l.kind)
          IN ret' = [op |-> "compare_same_kind", lhs |-> l, rhs |-> r,
                     eq |-> eq(l, r),
                     cmp |-> cmp(l, r),
                     partial_cmp |-> partial_cmp(l, r),
                     hash_lhs |-> hash(l, <<>>),
                     hash_rhs |-> hash(r, <<>>),
                     eq_entity |-> eq_entity(l, e),
                     entity_eq |-> entity_eq(e, l)]
    /\ UNCHANGED <<worldVars, declared, foo, bar, triggerVars, otherVars>>

NextCompare ==
    \/ Spawn
    \/ FromEntityUnchecked
    \/ Placeholder
    \/ CompareSameKind

SpecCompare == InitSched /\ [][NextCompare]_vars

\* ------------------------------------------------ InstanceCommands
\* InstanceCommands::instance: Instance::from_entity_unchecked(self.entity())
InstanceCommands_instance(a) ==
    from_entity_unchecked(a.instance.entity, a.instance.kind)

\* InstanceCommands::reborrow: InstanceCommands(self.0.reborrow(), PhantomData)
InstanceCommands_reborrow(a) ==
    Accessor("InstanceCommands", Instance(a.instance.entity, a.instance.kind))

\* InstanceCommands::cast_into::<U>() where T: CastInto<U>:
\* InstanceCommands::from_entity_unchecked(self.0)
InstanceCommands_cast_into(a, U) ==
    IF implements_CastInto(a.instance.kind, U)
    THEN Some(InstanceCommands_from_entity_unchecked(a.instance.entity, U))
    ELSE None

\* let h = a.instance()
CommandsGetInstance ==
    /\ acc # None
    /\ acc[1].type = "InstanceCommands"
    /\ ret' = [op |-> "InstanceCommands::instance", self |-> acc[1],
               out |-> InstanceCommands_instance(acc[1])]
    /\ UNCHANGED <<worldVars, declared, foo, bar, triggerVars, otherVars>>

\* let a = a.reborrow()
CommandsReborrow ==
    /\ acc # None
    /\ acc[1].type = "InstanceCommands"
    /\ acc' = Some(InstanceCommands_reborrow(acc[1]))
    /\ ret' = [op |-> "reborrow", self |-> acc[1]]
    /\ UNCHANGED <<worldVars, declared, foo, bar, triggerVars, changed, queue,
                   systems, running, in_progress>>

\* let a = a.cast_into::<U>()
CommandsCastInto ==
    /\ acc # None
    /\ acc[1].type = "InstanceCommands"
    /\ \E U \in Kinds :
          LET out == InstanceCommands_cast_into(acc[1], U) IN
          /\ ret' = [op |-> "InstanceCommands::cast_into", self |-> acc[1],
                     kind |-> U, out |-> out]
          /\ acc' = IF out # None THEN out ELSE acc
    /\ UNCHANGED <<worldVars, declared, foo, bar, triggerVars, changed, queue,
                   systems, running, in_progress>>

\* a.insert(bundle) or a.remove::<U>() while at most MaxCommands commands
\* are queued
MaxCommands == 1
CommandsInsertRemove == CommandsQueueUpTo(MaxCommands)

\* safe_cast!(Apple => Fruit) and safe_cast!(Orange => Fruit) are declared
InitCommands ==
    /\ InitWorld /\ InitTriggerVars /\ InitOtherVars
    /\ declared = { <<"Apple", "Fruit">>, <<"Orange", "Fruit">> }
    /\ foo = None /\ bar = None
    /\ ret = [op |-> "none"]

NextCommands ==
    \/ Spawn
    \/ FromEntity
    \/ CommandsInstance
    \/ CommandsGetInstance
    \/ CommandsInsertRemove
    \/ CommandsReborrow
    \/ CommandsCastInto
    \/ DropAccessor

SpecCommands == InitCommands /\ [][NextCommands]_vars

\* ------------------------------------------------ properties of the trigger
\* the entities that received the event, in order
Targets == [i \in 1..Len(received) |-> received[i].target]
\* every reaction so far left propagate true
PropagateLeftTrue == \A i \in 1..Len(received) : received[i].propagate
IsPrefix(s, t) == Len(s) <= Len(t) /\ \A i \in 1..Len(s) : s[i] = t[i]
\* the related entity of e; only used where traverse(e) # None
Hop(e) == traverse(e)[1]
Running == pc \notin {"idle", "check"}

\* the event was raised on the root of a chain root -> a -> b -> c -> d that
\* ends at d, where root, c and d have K and a and b do not
P5Chain ==
    LET root == original_event_target IN
    /\ root \in alive /\ traverse(root) # None
    /\ LET a == Hop(root) IN
       /\ traverse(a) # None
       /\ LET b == Hop(a) IN
          /\ traverse(b) # None
          /\ LET c == Hop(b) IN
             /\ traverse(c) # None
             /\ LET d == Hop(c) IN
                /\ traverse(d) = None
                /\ contains(root, K) /\ ~contains(a, K) /\ ~contains(b, K)
                /\ contains(c, K) /\ contains(d, K)
P5Expected ==
    LET root == original_event_target
        c == Hop(Hop(Hop(root)))
    IN <<root, c, Hop(c)>>

\* C1: on the chain root -> a -> b -> c -> d (root, c, d of kind K, a and b
\* not), with propagate left true by every reaction, the event is dispatched
\* to root, c and d in that order and to no other entity: at every moment the
\* dispatches are a prefix of <<root, c, d>>, and all three when trigger returns.
C1_TraversalCount ==
    (Running /\ P5Chain /\ PropagateLeftTrue) =>
        /\ pc # "panicked"
        /\ IsPrefix(Targets, P5Expected)
        /\ (pc = "done" => Targets = P5Expected)
C1_Witness ==
    /\ pc = "done" /\ P5Chain /\ PropagateLeftTrue
    /\ Len(received) = 3

\* C2: once the reactions at an entity leave propagate false, no later
\* dispatch happens in this invocation: an entry of the dispatch log with
\* propagate false is the last one, and the walk has stopped after it.
C2_EarlyStop ==
    /\ \A i \in 1..Len(received) :
          ~received[i].propagate => i = Len(received)
    /\ (received # <<>> /\ ~received[Len(received)].propagate) =>
          pc \in {"loop", "done"}
C2_Witness ==
    /\ pc = "done" /\ P5Chain
    /\ Len(received) = 2
    /\ received[2].target = Hop(Hop(Hop(original_event_target)))
    /\ ~received[2].propagate

\* C3: raising the trigger on an entity that is not of kind K panics before
\* any reaction runs: nothing is ever dispatched, to the target or an ancestor.
C3_ContractViolation ==
    /\ (Running /\ ~contains(original_event_target, K)) =>
          (pc = "panicked" /\ received = <<>>)
    /\ (pc = "panicked" => received = <<>>)
C3_Witness ==
    /\ pc = "panicked"
    /\ ~contains(original_event_target, K)
    /\ traverse(original_event_target) # None
    /\ contains(Hop(original_event_target), K)

\* C4: an entity without K never receives the event, and the walk does not
\* end at such an entity by itself: with propagate still true the trigger
\* returns only where the relation is exhausted.
C4_SkipTransparent ==
    /\ \A i \in 1..Len(received) : contains(received[i].target, K)
    /\ (pc = "filter" => propagate)
    /\ ((pc = "done" /\ propagate) => traverse(event_target) = None)
C4_Witness ==
    /\ pc = "done" /\ propagate
    /\ Len(received) = 2
    /\ LET root == original_event_target IN
       /\ traverse(root) # None /\ ~contains(Hop(root), K)
       /\ traverse(Hop(root)) # None /\ ~contains(Hop(Hop(root)), K)
       /\ traverse(Hop(Hop(root))) # None
       /\ received[2].target = Hop(Hop(Hop(root)))

\* C5: raised on an entity of kind K that has no related entity, the event is
\* dispatched exactly once, to that entity, and the trigger returns without
\* panicking.
C5_ZeroHop ==
    (Running /\ contains(original_event_target, K)
             /\ traverse(original_event_target) = None) =>
        /\ pc \in {"dispatch", "loop", "traverse", "done"}
        /\ (pc = "dispatch" => received = <<>>)
        /\ (pc # "dispatch" => Targets = <<original_event_target>>)
C5_Witness ==
    /\ pc = "done" /\ propagate
    /\ contains(original_event_target, K)
    /\ traverse(original_event_target) = None
    /\ Len(received) = 1
    /\ Cardinality(alive) > 1

\* ------------------------------------------------ properties of the handles
FruitRules == { <<"Apple", "Fruit">>, <<"Orange", "Fruit">> }

\* C6: checked construction Instance::<T>::from_entity(e) returns Some exactly
\* when e has component T at the time of the call, and the handle returned
\* carries the id of e (from_entity exists for component kinds only).
C6_PredicateSoundness ==
    ret.op = "from_entity" =>
        /\ (ret.out # None) <=> (ret.entity \in alive /\ ret.kind \in comps[ret.entity])
        /\ (ret.out # None =>
              (ret.out[1].entity = ret.entity /\ ret.out[1].kind = ret.kind))
C6_Witness ==
    /\ ret.op = "from_entity"
    /\ ret.out # None
    /\ ret.kind = "Orange"
    /\ comps[ret.entity] = {"Apple", "Orange"}

\* C7: for a handle of kind A and a declared rule A -> B, the safe cast to B
\* is accepted and yields a handle of kind B with the entity id of the input.
C7_CastSoundness ==
    (ret.op = "cast_into" /\ <<ret.self.kind, ret.kind>> \in declared) =>
        ret.out = Some([entity |-> ret.self.entity, kind |-> ret.kind])
C7_Witness ==
    /\ ret.op = "cast_into"
    /\ <<ret.self.kind, ret.kind>> \in declared
    /\ ret.self.entity \in alive
    /\ ret.self.kind \in comps[ret.self.entity]
    /\ ret.out # None

C10_NoInferredRule ==
    ret.op = "cast_into" =>
        /\ (ret.out # None) =>
              \/ ret.kind = ret.self.kind
              \/ ret.kind = "Any"
              \/ <<ret.self.kind, ret.kind>> \in declared
        /\ (/\ ret.kind # ret.self.kind
            /\ ret.kind # "Any"
            /\ <<ret.self.kind, ret.kind>> \notin declared) => ret.out = None
        /\ (declared = FruitRules /\ ret.kind = "Orange"
               /\ ret.self.kind \in {"Fruit", "Apple"}) => ret.out = None
C10_Witness ==
    /\ ret.op = "cast_into"
    /\ declared = FruitRules
    /\ ret.self.kind = "Fruit" /\ ret.kind = "Orange"
    /\ ret.self.entity \in alive /\ "Apple" \in comps[ret.self.entity]
    /\ bar = Some(ret.self)
    /\ ret.out = None

\* the handle refers to an entity that matches the predicate of its kind now,
\* or is the placeholder
Valid(h) ==
    \/ h.entity = EntityPLACEHOLDER
    \/ h.entity \in alive /\ matches_component_set(h.kind, comps[h.entity])

\* the handle of register r, if any, is valid
Ok(r) == reg(r) # None => Valid(reg(r)[1])

\* every entity that matches the predicate of A matches the predicate of B
SoundRule(A, B) ==
    \A cs \in SUBSET Components :
        matches_component_set(A, cs) => matches_component_set(B, cs)

\* C11 as stated (INV1): in code that calls no unsafe function, every handle
\* got from a validated constructor (checked from_entity, a query fetch) or
\* derived from one by safe casts refers to an entity that matches the
\* predicate of its kind now, or is the placeholder, after any interleaving
\* of world operations.
C11_INV1 ==
    \A r \in Registers :
        reg(r) # None =>
            \/ reg(r)[1].entity = EntityPLACEHOLDER
            \/ /\ reg(r)[1].entity \in alive
               /\ matches_component_set(reg(r)[1].kind, comps[reg(r)[1].entity])

\* C11: in code that calls no unsafe function a handle is valid when it is
\* built from the world or from a valid handle under a sound rule; it stops
\* being valid only by a later insert, remove or despawn on the world, or by
\* a safe cast whose input was no longer valid or whose declared rule A -> B
\* is unsound (an entity can match A without matching B).
C11_INV1UntilWorldChange ==
    [][\A r \in Registers :
          (Ok(r) /\ ~Ok(r)') =>
              \/ ret'.op \in {"insert", "remove", "despawn"}
              \/ /\ ret'.op = "cast_into"
                 /\ \/ ~Valid(ret'.self)
                    \/ ~SoundRule(ret'.self.kind, ret'.kind)
              \/ ret'.op = "cast_into_any" /\ ~Valid(ret'.self)]_vars
C11_Witness ==
    /\ ret.op = "remove"
    /\ foo # None /\ bar # None
    /\ foo[1].entity \in alive
    /\ bar[1].kind = "Fruit"
    /\ ~Valid(foo[1]) /\ ~Valid(bar[1])

\* C12: a query over Instance<T> yields exactly one handle, of kind T, for
\* every live entity that matches the filter of T and none for any other
\* entity: With for a component kind (also on an entity with several
\* components), Or for Fruit, Without for NotApple, every entity for Any; one
\* Apple entity and one Orange entity give two handles for Fruit.
C12_QueryExact ==
    ret.op = "query" =>
        /\ \A i \in DOMAIN ret.out :
              ret.out[i].kind = ret.kind /\ ret.out[i].entity \in alive
        /\ \A e \in alive :
              Cardinality({i \in DOMAIN ret.out : ret.out[i].entity = e}) =
                  IF \/ ret.kind \in Components /\ ret.kind \in comps[e]
                     \/ ret.kind = "Fruit" /\ comps[e] # {}
                     \/ ret.kind = "Any"
                     \/ ret.kind = "NotApple" /\ "Apple" \notin comps[e]
                  THEN 1 ELSE 0
        /\ (/\ ret.kind = "Fruit"
            /\ \E a, o \in alive : /\ alive = {a, o}
                                   /\ comps[a] = {"Apple"}
                                   /\ comps[o] = {"Orange"}) => Len(ret.out) = 2
C12_Witness ==
    /\ ret.op = "query"
    /\ ret.kind = "Fruit"
    /\ \E a, o \in alive : /\ alive = {a, o}
                           /\ comps[a] = {"Apple"}
                           /\ comps[o] = {"Orange"}
    /\ Len(ret.out) = 2
    /\ ret.out[1].entity # ret.out[2].entity

\* C13: the access a mutable accessor query (InstanceMut<T>) declares to the
\* host holds a write of T, and a handle or read accessor query declares no
\* write; so no two systems run concurrently when one mutates T through a
\* mutable accessor and the other reads or mutates T.
C13_MutationSerialized ==
    /\ \A i \in DOMAIN systems :
          /\ systems[i].item = "InstanceMut" =>
                systems[i].kind \in systems[i].access.writes
          /\ systems[i].item \in {"Instance", "InstanceRef"} =>
                systems[i].access.writes = {}
    /\ \A i, j \in running :
          (/\ i # j
           /\ systems[i].item = "InstanceMut"
           /\ systems[j].item \in {"InstanceRef", "InstanceMut"})
              => systems[i].kind # systems[j].kind

\* C14: over a finite relation without cycles a call of trigger always
\* returns or panics; it returns only where the relation is exhausted at the
\* current entity or where propagate was false at the head of the loop, and
\* it panics only on the first check, before any dispatch.
C14_Termination ==
    /\ (pc = "check") ~> (pc \in {"done", "panicked"})
    /\ [](pc = "done" => (~propagate \/ traverse(event_target) = None))
    /\ [](pc = "panicked" =>
             (received = <<>> /\ ~contains(original_event_target, K)))
C14_Witness ==
    /\ pc = "done"
    /\ propagate
    /\ Len(received) >= 2
    /\ traverse(event_target) = None
    /\ \E e \in alive : e # original_event_target /\ ~contains(e, K)

\* C15: within one call of trigger the hops are sequential: at most one
\* dispatch is in progress, it is the dispatch to the current entity, and it
\* has returned before the head of the loop, the relation lookup and the
\* kind check of the next hop run.
C15_SequentialHops ==
    /\ Len(in_progress) <= 1
    /\ in_progress # <<>> => (pc = "observers" /\ in_progress[1] = event_target)
    /\ pc \in {"loop", "traverse", "filter", "dispatch", "done"} =>
          in_progress = <<>>
C15_Witness ==
    /\ pc = "observers"
    /\ in_progress = <<event_target>>
    /\ event_target # original_event_target
    /\ Len(received) >= 1
    /\ received[Len(received)].target # event_target

\* the accessor was built for an entity that does not match its kind
BuiltNonMatching ==
    /\ ret.op \in {"accessor_from_entity", "accessor_from_entity_unchecked",
                   "instance"}
    /\ ret.out # None
    /\ ~(/\ ret.out[1].instance.entity \in alive
         /\ matches_component_set(ret.out[1].instance.kind,
                                  comps[ret.out[1].instance.entity]))

\* C16 as stated: each of the four safe from_entity constructors returns an
\* accessor iff the entity has component T at the time of the call, with the
\* id of that entity in its handle; an accessor for an entity that does not
\* match is built by the functions named unchecked only.
C16_UncheckedOnly ==
    /\ ret.op = "accessor_from_entity" =>
          /\ (ret.out # None) <=> (ret.entity \in alive
                                      /\ ret.kind \in comps[ret.entity])
          /\ ret.out # None =>
                ret.out[1] = [type |-> ret.type,
                              instance |-> [entity |-> ret.entity,
                                            kind |-> ret.kind]]
    /\ BuiltNonMatching => ret.op = "accessor_from_entity_unchecked"

\* C16: each of the four safe from_entity constructors returns an accessor
\* iff the entity has component T at the time of the call, with the id of
\* that entity in its handle; an accessor for an entity that does not match
\* is built by the functions named unchecked or by the safe
\* Commands::instance(handle), which wraps the id of the handle it is given
\* without a check, so from a handle that went stale.
C16_CheckedConstructors ==
    /\ ret.op = "accessor_from_entity" =>
          /\ (ret.out # None) <=> (ret.entity \in alive
                                      /\ ret.kind \in comps[ret.entity])
          /\ ret.out # None =>
                ret.out[1] = [type |-> ret.type,
                              instance |-> [entity |-> ret.entity,
                                            kind |-> ret.kind]]
    /\ BuiltNonMatching =>
          \/ ret.op = "accessor_from_entity_unchecked"
          \/ /\ ret.op = "instance"
             /\ ret.out[1].type = "InstanceCommands"
             /\ ret.out[1].instance = ret.self
C16_Witness ==
    /\ ret.op = "accessor_from_entity"
    /\ ret.type = "InstanceMut"
    /\ ret.kind = "Orange"
    /\ comps[ret.entity] = {"Apple", "Orange"}
    /\ acc = Some([type |-> "InstanceMut",
                   instance |-> [entity |-> ret.entity, kind |-> "Orange"]])

\* C17: map_entities replaces the id in the handle by the image of that id
\* under the mapper, as for a raw entity id, and leaves the kind unchanged:
\* entity(map(h)) = map(entity(h)).
C17_MapEntities ==
    ret.op = "map_entities" =>
        /\ ret.out.entity = ret.mapper[ret.self.entity]
        /\ ret.out.kind = ret.self.kind
        /\ foo = Some(ret.out)
C17_Witness ==
    /\ ret.op = "map_entities"
    /\ ret.self.kind = "Apple"
    /\ ret.self.entity \in alive
    /\ ret.out.entity \in alive
    /\ ret.out.entity # ret.self.entity
    /\ ret.out.kind \notin comps[ret.out.entity]
    /\ ret.mapper[ret.out.entity] # ret.self.entity

\* C18: deref_mut and as_mut of a mutable accessor mark the component
\* changed; deref, as_ref and bypass_change_detection leave the change marks
\* as they are.
C18_ChangeMarks ==
    [][/\ ret'.op \in {"deref_mut", "as_mut"} => ret'.slot \in changed'
       /\ ret'.op \in {"deref", "as_ref", "bypass_change_detection"} =>
             changed' = changed]_vars
C18_Witness ==
    /\ ret.op = "deref_mut"
    /\ ~ret.was_changed
    /\ ret.slot \in changed
    /\ acc # None
    /\ ret.slot = <<acc[1].instance.entity, acc[1].instance.kind>>

\* C19: the checked construction Instance::from_entity has no side effect,
\* whether it succeeds or not: entities, components and change marks are as
\* before; for an entity without the component the result is None.
C19_NoSideEffect ==
    [][ret'.op = "from_entity" =>
          /\ UNCHANGED <<nextId, alive, comps, parent, changed>>
          /\ ~contains(ret'.entity, ret'.kind) => ret'.out = None]_vars
C19_Witness ==
    /\ ret.op = "from_entity"
    /\ ret.out = None
    /\ ret.entity \in alive
    /\ comps[ret.entity] # {}
    /\ changed = {}
    /\ foo # None

\* C20: the accessor spawn_instance returns refers to a newly spawned entity
\* of the spawned kind. World variant: when the call returns the entity
\* exists and has component T (the unwrap does not panic). Commands variant:
\* the accessor carries the reserved id and the kind of the bundle, the spawn
\* is queued, and once the buffer has been applied up to that command the
\* entity exists and has the components of the bundle.
C20_SpawnInstance ==
    /\ ret.op = "World::spawn_instance" =>
          /\ ret.out = Some([type |-> "InstanceMut",
                             instance |-> [entity |-> ret.entity,
                                           kind |-> ret.kind]])
          /\ acc = ret.out
          /\ ret.entity = nextId - 1
          /\ ret.entity \in alive
          /\ ret.kind \in comps[ret.entity]
    /\ ret.op = "Commands::spawn_instance" =>
          /\ ret.out[1].type = "InstanceCommands"
          /\ ret.out[1].instance.entity = ret.entity
          /\ ret.out[1].instance.kind \in ret.bundle
          /\ acc = ret.out
          /\ ret.entity = nextId - 1
          /\ ret.entity \notin alive
          /\ queue[Len(queue)] = [cmd |-> "spawn", entity |-> ret.entity,
                                  bundle |-> ret.bundle]
    /\ (ret.op = "apply" /\ ret.cmd.cmd = "spawn") =>
          /\ ret.cmd.entity \in alive
          /\ ret.cmd.bundle \subseteq comps[ret.cmd.entity]
C20_Witness ==
    /\ ret.op = "apply"
    /\ ret.cmd = [cmd |-> "spawn", entity |-> 1, bundle |-> {"Orange"}]
    /\ alive = {0, 1}
    /\ comps[0] = {"Apple"}
    /\ comps[1] = {"Orange"}
    /\ queue # <<>>

\* ------------------------------------------- properties of trigger frames
\* C21: while one call of trigger runs, no step of the engine changes
\* original_event_target, which is the entity InstanceTrigger::new was given,
\* and whenever the observers of an entity run, the event_target field they
\* are shown is the entity trigger_entity_internal was called with; every
\* dispatch that is logged was made to the event_target of that moment.
C21_TargetFrame ==
    [][ /\ (pc # "idle" => original_event_target' = original_event_target)
        /\ (pc' # "idle" => original_event_target' = ret'.event_target)
        /\ (pc' = "observers" =>
               in_progress'[Len(in_progress')] = event_target')
        /\ (Len(received') > Len(received) =>
               received'[Len(received')].target = event_target') ]_vars
C21_Witness ==
    /\ pc = "observers"
    /\ received # <<>>
    /\ event_target # original_event_target
    /\ in_progress = <<event_target>>
    /\ ret.event_target = original_event_target

\* the entities on the relation chain that starts at e, e first
RECURSIVE ChainFrom(_)
ChainFrom(e) ==
    IF traverse(e) = None THEN <<e>> ELSE <<e>> \o ChainFrom(Hop(e))
HasK(e) == contains(e, K)
\* the reference result before the cut: the entities of the chain of the
\* original entity that have K, in chain order
MatchingChain == SelectSeq(ChainFrom(original_event_target), HasK)

\* C22: the entities that received the event are, in order, the original
\* entity followed by the entities of its relation chain that have K, cut
\* after the first dispatched entity whose reactions left propagate false:
\* while the call runs the dispatches are a prefix of that chain, every
\* dispatch but the last left propagate true, and at return the dispatches
\* stop short of the whole chain only where propagate was left false.
C22_ReferenceSequence ==
    (Running /\ pc # "panicked") =>
        LET n == Len(received) IN
        /\ MatchingChain[1] = original_event_target
        /\ n <= Len(MatchingChain)
        /\ Targets = SubSeq(MatchingChain, 1, n)
        /\ \A i \in 1..(n - 1) : received[i].propagate
        /\ (pc = "done" =>
              /\ n >= 1
              /\ (n < Len(MatchingChain) => ~received[n].propagate)
              /\ (received[n].propagate => n = Len(MatchingChain)))
C22_Witness ==
    /\ pc = "done"
    /\ Len(ChainFrom(original_event_target)) = 5
    /\ Len(MatchingChain) = 3
    /\ Len(received) = 2
    /\ received[2].target = Hop(Hop(original_event_target))
    /\ ~received[2].propagate

\* C23: one payload serves the whole call: only a reaction changes it, and
\* what a reaction writes is the payload from then on; every reaction and
\* every call of the relation function is handed the payload as the last
\* write left it, so a change made at one entity is what the next relation
\* lookup and the reactions at every later entity see.
C23_SamePayload ==
    [][ /\ (event' # event =>
               /\ pc = "observers" /\ pc' = "observers"
               /\ ret'.op = "observer" /\ ret'.event = event)
        /\ ((pc = "observers" /\ ret'.op = "observer" /\ ret' # ret) =>
               /\ ret'.event = event
               /\ event' = ret'.wrote)
        /\ (pc = "traverse" =>
               /\ ret'.op = "traverse"
               /\ ret'.event = event /\ event' = event) ]_vars
C23_Witness ==
    /\ pc = "observers"
    /\ ret.op = "observer"
    /\ received # <<>>
    /\ event_target # original_event_target
    /\ ret.event # DefaultEvent
    /\ ret.wrote = DefaultEvent

\* -------------------------------------------- properties of the adapters
\* the operation of the item the adapter stands for: T::Filter for Instance<T>,
\* (Instance<T>, &T) for InstanceRef<T>, (Instance<T>, &mut T) for
\* InstanceMut<T>
Stands(r) ==
    CASE r.item = "Instance" ->
            Filter_WorldQuery(r.call, r.kind, r.fetch, r.archetype)
      [] r.item = "InstanceRef" ->
            Pair_WorldQuery(FALSE, r.call, r.kind, r.fetch, r.archetype)
      [] r.item = "InstanceMut" ->
            Pair_WorldQuery(TRUE, r.call, r.kind, r.fetch, r.archetype)

\* C24: every query-protocol operation of Instance<T> returns what that
\* operation of T::Filter returns and leaves the same Fetch, and every
\* operation of InstanceRef<T> / InstanceMut<T> does what that operation of
\* (Instance<T>, &T) / (Instance<T>, &mut T) does.
C24_AdaptersForward ==
    ret.op = "world_query" => ret.out = Stands(ret)

\* every declared rule A -> B is sound
AllSound == \A rule \in declared : SoundRule(rule[1], rule[2])
\* the entity of h is alive and matches the predicate of the kind of h
Matches(h) ==
    h.entity \in alive /\ matches_component_set(h.kind, comps[h.entity])

\* C25: a safe cast re-tags and does nothing else: it leaves the world and
\* the change marks alone, whether it is accepted depends on the two kinds
\* and the declared rules only (a stale handle casts like a fresh one), and an
\* accepted cast returns the entity id of its input under the target kind;
\* so with sound rules only, casting a handle whose entity matches its kind
\* gives a handle whose entity matches the target kind.
C25_PureRetag ==
    [][ ret'.op = "cast_into" =>
          /\ UNCHANGED <<worldVars, changed>>
          /\ (ret'.out # None) <=>
                (ret'.kind = "Any" \/ <<ret'.self.kind, ret'.kind>> \in declared)
          /\ ret'.out # None =>
                ret'.out = Some([entity |-> ret'.self.entity,
                                 kind |-> ret'.kind])
          /\ (AllSound /\ ret'.out # None /\ Matches(ret'.self)) =>
                Matches(ret'.out[1]) ]_vars
C25_Witness ==
    /\ ret.op = "cast_into"
    /\ declared # {} /\ AllSound
    /\ ret.self.kind = "Orange" /\ ret.kind = "Fruit"
    /\ Matches(ret.self)
    /\ ret.out # None /\ Matches(ret.out[1])
    /\ Cardinality(alive) > 1

\* ------------------------------------------ properties of the comparisons
\* the order of two entity ids, written out for the ids of the model: spawned
\* entities in spawn order, the placeholder after all of them
IdOrder(a, b) ==
    IF a = b THEN "Equal"
    ELSE IF b = EntityPLACEHOLDER THEN "Less"
    ELSE IF a = EntityPLACEHOLDER THEN "Greater"
    ELSE IF a < b THEN "Less" ELSE "Greater"

\* C26: for two handles of one kind, == holds iff the entity ids are equal,
\* cmp and partial_cmp give the order of the entity ids, handles that are
\* equal hash to the same value, and handle == entity and entity == handle
\* give the same answer, which is whether the ids are equal.
C26_IdAlgebra ==
    ret.op = "compare_same_kind" =>
        LET a == ret.lhs.entity
            b == ret.rhs.entity
        IN /\ ret.eq = Some(a = b)
           /\ ret.cmp = Some(IdOrder(a, b))
           /\ ret.partial_cmp = ret.cmp
           /\ (ret.eq = Some(TRUE) => ret.hash_lhs = ret.hash_rhs)
           /\ ret.eq_entity = (a = b)
           /\ ret.entity_eq = ret.eq_entity
C26_Witness ==
    /\ ret.op = "compare_same_kind"
    /\ ret.lhs.kind = "Fruit"
    /\ ret.lhs.entity = 1 /\ ret.rhs.entity = 0
    /\ ret.cmp = Some("Greater")
    /\ ret.eq = Some(FALSE)
    /\ ~ret.entity_eq

\* --------------------------------------- properties of the propagate flag
\* the trigger was created with propagate = false on an entity of kind K
CreatedStopped ==
    /\ Running
    /\ ret.op = "InstanceTrigger::new" /\ ~ret.propagate
    /\ contains(original_event_target, K)

\* C27: a trigger created with propagate = false on an entity of kind K
\* dispatches to that entity; unless its reactions leave propagate true, that
\* is the only dispatch, the relation function is never called, event_target
\* stays the original entity, and trigger returns after that one dispatch.
C27_NoPropagation ==
    CreatedStopped =>
        /\ pc # "panicked"
        /\ received # <<>> => received[1].target = original_event_target
        /\ (pc = "done" => received # <<>>)
        /\ (received = <<>> \/ ~received[1].propagate) =>
              /\ pc \in {"check", "dispatch", "loop", "done"}
              /\ event_target = original_event_target
              /\ Len(received) <= 1
C27_Witness ==
    /\ CreatedStopped
    /\ pc = "done"
    /\ Targets = <<original_event_target>>
    /\ ~received[1].propagate
    /\ traverse(original_event_target) # None
    /\ contains(Hop(original_event_target), K)

\* C28: propagate is read at the head of the loop only. While the observers
\* of an entity run, a further observer can run whatever propagate is, and
\* the dispatch ends by returning to the head of the loop with the dispatch
\* logged and the flag as the observers left it; the relation function is
\* called only from the head of the loop with propagate true; an entity
\* skipped for lacking K leads back to the head of the loop; and at the head
\* of the loop a false flag ends the call.
C28_FlagBetweenHops ==
    /\ [](pc = "observers" => ENABLED Observer)
    /\ [][ /\ (pc = "observers" /\ pc' # "observers") =>
                 /\ pc' = "loop"
                 /\ Len(received') = Len(received) + 1
                 /\ received'[Len(received')].target = event_target
                 /\ propagate' = propagate
           /\ pc' = "traverse" => (pc = "loop" /\ propagate)
           /\ pc = "filter" => pc' \in {"dispatch", "loop"}
           /\ (pc = "filter" /\ ~contains(event_target, K)) => pc' = "loop"
           /\ (pc = "loop" /\ ~propagate) => pc' = "done" ]_vars
C28_Witness ==
    /\ pc = "observers"
    /\ ret.op = "InstanceTrigger::new" /\ ret.propagate
    /\ ~propagate
    /\ Len(received) = 1
    /\ traverse(original_event_target) # None
    /\ ~contains(Hop(original_event_target), K)
    /\ traverse(Hop(original_event_target)) # None
    /\ event_target = Hop(Hop(original_event_target))

\* C29: in one call of trigger no entity receives the event twice, and the
\* number of dispatches is at most the number of entities on the relation
\* chain that starts at the original entity.
C29_AtMostOnce ==
    Running =>
        /\ \A i, j \in 1..Len(received) :
              i # j => received[i].target # received[j].target
        /\ Len(received) <= Len(ChainFrom(original_event_target))
C29_Witness ==
    /\ pc = "done"
    /\ Len(received) >= 3
    /\ Len(received) = Len(ChainFrom(original_event_target))
    /\ Cardinality({ received[i].target : i \in 1..Len(received) }) =
          Len(received)

====
